---- MODULE Spec2Model ----
(***************************************************************************)
(* A model of the chunked transcription pipeline of project1.2.py:         *)
(* split_audio, transcribe_chunk, safe_delete and process_long_audio.      *)
(*                                                                         *)
(* Text is a sequence of characters, so that "\n\n".join is a real         *)
(* concatenation.  A temp file path is the index of the chunk it was       *)
(* created for (NamedTemporaryFile returns a fresh name on every call).    *)
(* Durations and offsets are milliseconds, as in pydub.                    *)
(***************************************************************************)
EXTENDS Integers, Sequences, FiniteSets, TLC

VARIABLES
    pc,               \* position of the job inside process_long_audio
    load_ok,          \* whether AudioSegment.from_file can decode the source
    duration,         \* len(audio) of the source, in ms
    chunk_minutes,    \* the chunk_minutes argument of split_audio
    chunks,           \* the list split_audio returned
    i,                \* loop index of "for i, chunk in enumerate(chunks)"
    temp_path,        \* the local temp_path: {} while unbound, else {path}
    disk,             \* the chunk temp files that exist on disk
    full_transcript,  \* the list full_transcript
    transcript,       \* the local transcript (value returned by transcribe_chunk)
    attempt,          \* loop index of "for attempt in range(retries)"
    sleeps,           \* the time.sleep calls of the running transcribe_chunk call
    result,           \* the value process_long_audio returned
    errors,           \* the st.error reports, by kind
    warned,           \* the paths a safe_delete warning was emitted for
    progress_events,  \* the progress_bar.progress calls, as <<i + 1, N>>
    calls,            \* number of remote transcription calls made
    created,          \* history: the temp files ever created
    delete_called,    \* history: the paths safe_delete was invoked on
    chunk_text,       \* history: what transcribe_chunk returned, per chunk index
    exhausted,        \* history: the chunks whose every attempt failed
    export_failed,    \* history: the chunks whose chunk.export raised
    call_log,         \* history: the outcomes of the attempts of the running
                      \* transcribe_chunk call, in order
    retries,          \* the retries argument of transcribe_chunk
    sd_log,           \* the calls of safe_delete made on their own, with their outcome
    hpc,              \* per session: position of the script run in its handler
    processing,       \* per session: st.session_state.processing
    entry,            \* per session: the handler run, "audio" or "youtube"
    h_temp_path,      \* per session: the handler's temp_path, {} while None
    h_result,         \* per session: audio_result / yt_result, {} while None
    h_errors,         \* per session: the st.error reports of the handler
    shown,            \* per session: what the run displayed for the result
    interrupted,      \* per session: an exception left process_long_audio
    src_disk,         \* the source audio files that exist on disk
    src_warned,       \* the source paths a safe_delete warning was emitted for
    src_written,      \* history: the sessions whose upload was written
    src_deleted       \* history: the sessions that invoked safe_delete on
                      \* their source file

\* the state of the handlers
appvars == <<hpc, processing, entry, h_temp_path, h_result, h_errors, shown,
             interrupted, src_disk, src_warned, src_written, src_deleted>>

\* the state outside process_long_audio
hvars == <<retries, sd_log, appvars>>

\* the state of process_long_audio
jobvars == <<pc, load_ok, duration, chunk_minutes, chunks, i, temp_path, disk,
             full_transcript, transcript, attempt, sleeps, result, errors,
             warned, progress_events, calls, created, delete_called,
             chunk_text, exhausted, export_failed, call_log>>

vars == <<pc, load_ok, duration, chunk_minutes, chunks, i, temp_path, disk,
          full_transcript, transcript, attempt, sleeps, result, errors, warned,
          progress_events, calls, created, delete_called, chunk_text, exhausted,
          export_failed, call_log, hvars>>

----------------------------------------------------------------------------
(* Bounds of the model *)

\* the longest source has this many chunks of the default size
MaxChunks == 3
\* the largest chunk_minutes argument split_audio is called with
MaxChunkMinutes == 3

\* the largest retries argument transcribe_chunk is called with
MaxRetries == 4

\* the number of browser sessions
MaxSessions == 2

(* Program constants *)

\* def split_audio(file_path, chunk_minutes=2)
DefaultChunkMinutes == 2
\* def transcribe_chunk(chunk_file, retries=3)
DefaultRetries == 3

EmptyText == <<>>
\* the responses the remote service may give (the empty text included: silence)
Texts == {EmptyText, <<"a">>, <<"b">>}
\* the separator of "\n\n".join
Separator == <<"\n", "\n">>

Min(a, b) == IF a <= b THEN a ELSE b

----------------------------------------------------------------------------
(* split_audio *)

ChunkMs(cm) == cm * 60 * 1000

\* a faulty variant: the range includes its stop value
RECURSIVE RangeInclusive(_, _, _)
RangeInclusive(start, stop, step) ==
    IF start > stop THEN <<>>
    ELSE <<start>> \o RangeInclusive(start + step, stop, step)

\* range(start, stop, step) as a sequence
RECURSIVE Range(_, _, _)
Range(start, stop, step) ==
    IF start >= stop THEN <<>>
    ELSE <<start>> \o Range(start + step, stop, step)

\* a faulty variant: the window is not clamped to the length of the audio
SlicePadded(len, a, b) == [start |-> a, end |-> b]

\* audio[a:b] of an audio of length len: pydub clamps both ends to len
Slice(len, a, b) == [start |-> Min(a, len), end |-> Min(b, len)]

\* the list comprehension of split_audio
SplitChunks(len, chunk_ms) ==
    LET starts == Range(0, len, chunk_ms)
    IN  [k \in 1..Len(starts) |-> Slice(len, starts[k], starts[k] + chunk_ms)]

\* split_audio(file_path, chunk_minutes): [] when the source fails to load
split_audio(ok, len, cm) ==
    IF ok THEN SplitChunks(len, ChunkMs(cm)) ELSE <<>>

\* the st.error of split_audio's except branch
SplitErrors(ok) == IF ok THEN {} ELSE {"split"}

----------------------------------------------------------------------------
(* transcribe_chunk *)

RECURSIVE Pow2(_)
Pow2(n) == IF n = 0 THEN 1 ELSE 2 * Pow2(n - 1)

\* a faulty variant: the exponent is one too large
WaitTimeOffByOne(a) == 5 * Pow2(a + 1)

\* wait_time = 5 * (2 ** attempt)
WaitTime(a) == 5 * Pow2(a)

\* if attempt < retries - 1
HasRetryLeft(a, budget) == a < budget - 1

\* return "" after st.error("Chunk failed: ...")
ChunkFailedText == EmptyText

----------------------------------------------------------------------------
(* process_long_audio *)

\* "\n\n".join(list)
RECURSIVE Join(_)
Join(list) ==
    IF Len(list) = 0 THEN EmptyText
    ELSE IF Len(list) = 1 THEN list[1]
    ELSE list[1] \o Separator \o Join(Tail(list))

\* a faulty variant: the text is inserted at the front of the list
AppendTranscriptFront(list, t) == <<t>> \o list

\* full_transcript.append(transcript)
AppendTranscript(list, t) == Append(list, t)

\* source durations around every multiple of the chunk sizes cms
DurationsFor(cms) ==
    UNION { { k * ChunkMs(cm) + r
              : r \in {0, 1, ChunkMs(cm) \div 4, ChunkMs(cm) - 1} }
            : k \in 0..(MaxChunks - 1), cm \in cms }
    \cup { MaxChunks * ChunkMs(cm) : cm \in cms }

Sessions == 1..MaxSessions

\* the path of the temp file the upload of session s is written to
\* (NamedTemporaryFile gives every run a name of its own)
UploadPath(s) == <<"upload", s>>
\* the path yt_audio_<id>.mp3 of the video: the same for every session
YtPath == <<"yt_audio", 0>>

\* the session state of lines 20-37 and the handler locals, before a run
InitSessions ==
    /\ processing = [s \in Sessions |-> FALSE]
    /\ h_temp_path = [s \in Sessions |-> {}]
    /\ h_result = [s \in Sessions |-> {}]
    /\ h_errors = [s \in Sessions |-> {}]
    /\ shown = [s \in Sessions |-> {}]
    /\ interrupted = [s \in Sessions |-> FALSE]
    /\ src_warned = {}
    /\ src_written = {}
    /\ src_deleted = {}

\* no handler runs: the function under study is called on its own
NoApp ==
    /\ hpc = [s \in Sessions |-> "Off"]
    /\ entry = [s \in Sessions |-> "audio"]
    /\ src_disk = {}
    /\ InitSessions

\* the state of a job before process_long_audio has run
InitLocals ==
    /\ chunks = <<>>
    /\ i = 0
    /\ temp_path = {}
    /\ disk = {}
    /\ full_transcript = <<>>
    /\ transcript = EmptyText
    /\ attempt = 0
    /\ sleeps = <<>>
    /\ result = EmptyText
    /\ errors = {}
    /\ warned = {}
    /\ progress_events = <<>>
    /\ calls = 0
    /\ created = {}
    /\ delete_called = {}
    /\ chunk_text = <<>>
    /\ exhausted = {}
    /\ export_failed = {}
    /\ call_log = <<>>

Init ==
    /\ pc = "Idle"
    /\ load_ok \in BOOLEAN
    /\ duration \in DurationsFor({DefaultChunkMinutes})
    /\ chunk_minutes = DefaultChunkMinutes
    /\ InitLocals
    /\ retries = DefaultRetries
    /\ sd_log = <<>>
    /\ NoApp

\* process_long_audio is called
Start ==
    /\ pc = "Idle"
    /\ pc' = "Loading"
    /\ UNCHANGED <<load_ok, duration, chunk_minutes, chunks, i, temp_path, disk,
                   full_transcript, transcript, attempt, sleeps, result, errors,
                   warned, progress_events, calls, created, delete_called,
                   chunk_text, exhausted,
                   export_failed>>
    /\ UNCHANGED <<call_log, hvars>>

\* chunks = split_audio(file_path)
LoadSource ==
    /\ pc = "Loading"
    /\ chunks' = split_audio(load_ok, duration, chunk_minutes)
    /\ errors' = errors \cup SplitErrors(load_ok)
    /\ pc' = IF chunks' = <<>> THEN "Empty" ELSE "PerChunkLoop"
    /\ UNCHANGED <<load_ok, duration, chunk_minutes, i, temp_path, disk,
                   full_transcript, transcript, attempt, sleeps, result,
                   warned, progress_events, calls, created, delete_called,
                   chunk_text, exhausted,
                   export_failed>>
    /\ UNCHANGED <<call_log, hvars>>

\* if not chunks: return ""
ReturnEmpty ==
    /\ pc = "Empty"
    /\ result' = EmptyText
    /\ pc' = "Done"
    /\ UNCHANGED <<load_ok, duration, chunk_minutes, chunks, i, temp_path, disk,
                   full_transcript, transcript, attempt, sleeps, errors,
                   warned, progress_events, calls, created, delete_called,
                   chunk_text, exhausted,
                   export_failed>>
    /\ UNCHANGED <<call_log, hvars>>

\* a faulty variant: the progress is computed from i instead of i + 1
ReportProgressFromZero ==
    /\ pc = "PerChunkLoop"
    /\ i < Len(chunks)
    /\ progress_events' = Append(progress_events, <<i, Len(chunks)>>)
    /\ pc' = "CreateTemp"
    /\ UNCHANGED <<load_ok, duration, chunk_minutes, chunks, i, temp_path, disk,
                   full_transcript, transcript, attempt, sleeps, result, errors,
                   warned, calls, created, delete_called, chunk_text, exhausted,
                   export_failed>>
    /\ UNCHANGED <<call_log, hvars>>

\* the head of the loop body: progress = (i + 1) / len(chunks) is reported
ReportProgress ==
    /\ pc = "PerChunkLoop"
    /\ i < Len(chunks)
    /\ progress_events' = Append(progress_events, <<i + 1, Len(chunks)>>)
    /\ pc' = "CreateTemp"
    /\ UNCHANGED <<load_ok, duration, chunk_minutes, chunks, i, temp_path, disk,
                   full_transcript, transcript, attempt, sleeps, result, errors,
                   warned, calls, created, delete_called, chunk_text, exhausted,
                   export_failed>>
    /\ UNCHANGED <<call_log, hvars>>

\* a faulty variant: the handler returns what was transcribed so far
ExceptHandlerPartial ==
    /\ errors' = errors \cup {"processing"}
    /\ result' = Join(full_transcript)
    /\ pc' = "Aborted"

\* a faulty variant: the handler reports the error and resumes the loop
ExceptHandlerResume ==
    /\ errors' = errors \cup {"processing"}
    /\ result' = EmptyText
    /\ pc' = "PerChunkLoop"

\* except Exception as e: st.error("Processing error: ..."); return ""
ExceptHandler ==
    /\ errors' = errors \cup {"processing"}
    /\ result' = EmptyText
    /\ pc' = "Aborted"

\* with tempfile.NamedTemporaryFile(suffix=".mp3", delete=False) as temp_file:
\*     temp_path = temp_file.name
\* the file is created under a fresh name, or the creation raises
CreateTemp ==
    /\ pc = "CreateTemp"
    /\ \E ok \in BOOLEAN :
        IF ok
        THEN /\ temp_path' = {i}
             /\ disk' = disk \cup {i}
             /\ created' = created \cup {i}
             /\ pc' = "Exporting"
             /\ UNCHANGED <<result, errors>>
        ELSE /\ ExceptHandler
             /\ UNCHANGED <<temp_path, disk, created>>
    /\ UNCHANGED <<load_ok, duration, chunk_minutes, chunks, i, full_transcript,
                   transcript, attempt, sleeps, warned, progress_events, calls,
                   delete_called, chunk_text, exhausted,
                   export_failed>>
    /\ UNCHANGED <<call_log, hvars>>

\* a faulty variant: a failed export is swallowed and the chunk is transcribed
ExportTolerant ==
    /\ pc = "Exporting"
    /\ \E ok \in BOOLEAN :
          export_failed' = IF ok THEN export_failed ELSE export_failed \cup {i}
    /\ pc' = "Transcribing"
    /\ attempt' = 0
    /\ sleeps' = <<>>
    /\ call_log' = <<>>
    /\ UNCHANGED <<load_ok, duration, chunk_minutes, chunks, i, temp_path, disk,
                   full_transcript, transcript, result, errors, warned,
                   progress_events, calls, created, delete_called, chunk_text,
                   exhausted>>
    /\ UNCHANGED hvars

\* chunk.export(temp_path, format="mp3", bitrate="64k"), then the call of
\* transcribe_chunk(temp_path); an exception of export leaves the loop
Export ==
    /\ pc = "Exporting"
    /\ \E ok \in BOOLEAN :
        IF ok
        THEN /\ pc' = "Transcribing"
             /\ attempt' = 0
             /\ sleeps' = <<>>
             /\ call_log' = <<>>
             /\ UNCHANGED <<result, errors, export_failed>>
        ELSE /\ ExceptHandler
             /\ export_failed' = export_failed \cup {i}
             /\ UNCHANGED <<attempt, sleeps, call_log>>
    /\ UNCHANGED <<load_ok, duration, chunk_minutes, chunks, i, temp_path, disk,
                   full_transcript, transcript, warned, progress_events, calls,
                   created, delete_called, chunk_text, exhausted>>
    /\ UNCHANGED hvars

\* transcribe_chunk returns t to process_long_audio: transcript = t
ReturnText(t) ==
    /\ transcript' = t
    /\ chunk_text' = Append(chunk_text, t)
    /\ pc' = "Append"

\* the outcome of one attempt, as logged
Succeeded(t) == [ok |-> TRUE, text |-> t]
Failed == [ok |-> FALSE, text |-> EmptyText]

\* a faulty variant: the last failed attempt re-raises instead of returning ""
TranscribeAttemptRaising ==
    /\ pc = "Transcribing"
    /\ attempt < retries
    /\ calls' = calls + 1
    /\ \/ \E t \in Texts :
            /\ ReturnText(t)
            /\ call_log' = Append(call_log, Succeeded(t))
            /\ UNCHANGED <<attempt, sleeps, errors, result, exhausted>>
       \/ /\ call_log' = Append(call_log, Failed)
          /\ IF HasRetryLeft(attempt, retries)
             THEN /\ sleeps' = Append(sleeps, WaitTime(attempt))
                  /\ attempt' = attempt + 1
                  /\ UNCHANGED <<pc, transcript, chunk_text, errors, result,
                                 exhausted>>
             ELSE /\ ExceptHandler
                  /\ exhausted' = exhausted \cup {i}
                  /\ UNCHANGED <<attempt, sleeps, transcript, chunk_text>>
    /\ UNCHANGED <<load_ok, duration, chunk_minutes, chunks, i, temp_path, disk,
                   full_transcript, warned, progress_events, created,
                   delete_called, export_failed>>
    /\ UNCHANGED hvars

\* a faulty variant: a failed attempt is retried at once, the sleep of the
\* except branch is skipped
TranscribeAttemptNoSleep ==
    /\ pc = "Transcribing"
    /\ IF attempt >= retries
       THEN /\ ReturnText(EmptyText)
            /\ UNCHANGED <<attempt, sleeps, errors, calls, exhausted, call_log>>
       ELSE /\ calls' = calls + 1
            /\ \/ \E t \in Texts :
                    /\ ReturnText(t)
                    /\ call_log' = Append(call_log, Succeeded(t))
                    /\ UNCHANGED <<attempt, sleeps, errors, exhausted>>
               \/ /\ call_log' = Append(call_log, Failed)
                  /\ IF HasRetryLeft(attempt, retries)
                     THEN /\ attempt' = attempt + 1
                          /\ UNCHANGED <<pc, transcript, chunk_text, errors,
                                         exhausted, sleeps>>
                     ELSE /\ errors' = errors \cup {"chunk"}
                          /\ exhausted' = exhausted \cup {i}
                          /\ ReturnText(ChunkFailedText)
                          /\ UNCHANGED <<attempt, sleeps>>
    /\ UNCHANGED <<load_ok, duration, chunk_minutes, chunks, i, temp_path, disk,
                   full_transcript, result, warned, progress_events, created,
                   delete_called, export_failed>>
    /\ UNCHANGED hvars

\* one iteration of "for attempt in range(retries)" of transcribe_chunk
TranscribeAttempt ==
    /\ pc = "Transcribing"
    /\ IF attempt >= retries
       THEN \* the loop is over: the trailing return ""
            /\ ReturnText(EmptyText)
            /\ UNCHANGED <<attempt, sleeps, errors, calls, exhausted, call_log>>
       ELSE /\ calls' = calls + 1
            /\ \/ \E t \in Texts :
                    /\ ReturnText(t)
                    /\ call_log' = Append(call_log, Succeeded(t))
                    /\ UNCHANGED <<attempt, sleeps, errors, exhausted>>
               \/ /\ call_log' = Append(call_log, Failed)
                  /\ IF HasRetryLeft(attempt, retries)
                     THEN /\ sleeps' = Append(sleeps, WaitTime(attempt))
                          /\ attempt' = attempt + 1
                          /\ UNCHANGED <<pc, transcript, chunk_text, errors,
                                         exhausted>>
                     ELSE /\ errors' = errors \cup {"chunk"}
                          /\ exhausted' = exhausted \cup {i}
                          /\ ReturnText(ChunkFailedText)
                          /\ UNCHANGED <<attempt, sleeps>>
    /\ UNCHANGED <<load_ok, duration, chunk_minutes, chunks, i, temp_path, disk,
                   full_transcript, result, warned, progress_events, created,
                   delete_called, export_failed>>
    /\ UNCHANGED hvars

\* full_transcript.append(transcript)
AppendChunk ==
    /\ pc = "Append"
    /\ full_transcript' = AppendTranscript(full_transcript, transcript)
    /\ pc' = "Cleaning"
    /\ UNCHANGED <<load_ok, duration, chunk_minutes, chunks, i, temp_path, disk,
                   transcript, attempt, sleeps, result, errors, warned,
                   progress_events, calls, created, delete_called, chunk_text,
                   exhausted, export_failed>>
    /\ UNCHANGED <<call_log, hvars>>

\* the outcome of a safe_delete call: the disk after it, the warning it
\* emitted, its return value, the os.unlink calls it made, whether it ran
\* gc.collect(), the seconds it slept and whether an exception left it
DeleteOutcome(d, w, r, n, g, t, x) ==
    [disk |-> d, warn |-> w, ret |-> r, unlinks |-> n, gc |-> g, slept |-> t,
     raised |-> x]

\* a faulty variant: a failed removal is not reported
safe_delete_silent(p, d, first, second) ==
    IF p \in d /\ (first = "ok" \/ (first = "permission" /\ second = "ok"))
    THEN DeleteOutcome(d \ {p}, {}, TRUE, 1, FALSE, 0, FALSE)
    ELSE DeleteOutcome(d, {}, FALSE, 0, FALSE, 0, FALSE)

\* a faulty variant: the retry is not guarded by a try of its own, so its
\* exception leaves safe_delete
safe_delete_unguarded_retry(p, d, first, second) ==
    IF p \notin d
    THEN DeleteOutcome(d, {}, FALSE, 0, FALSE, 0, FALSE)
    ELSE IF first = "ok"
    THEN DeleteOutcome(d \ {p}, {}, TRUE, 1, FALSE, 0, FALSE)
    ELSE IF first = "permission"
    THEN IF second = "ok"
         THEN DeleteOutcome(d \ {p}, {}, TRUE, 2, TRUE, 1, FALSE)
         ELSE DeleteOutcome(d, {}, FALSE, 2, TRUE, 1, TRUE)
    ELSE DeleteOutcome(d, {p}, FALSE, 1, FALSE, 0, FALSE)

\* a faulty variant: os.unlink is called without the os.path.exists test
safe_delete_unchecked(p, d, first, second) ==
    IF p \notin d
    THEN DeleteOutcome(d, {p}, FALSE, 1, FALSE, 0, FALSE)
    ELSE IF first = "ok"
    THEN DeleteOutcome(d \ {p}, {}, TRUE, 1, FALSE, 0, FALSE)
    ELSE IF first = "permission"
    THEN IF second = "ok"
         THEN DeleteOutcome(d \ {p}, {}, TRUE, 2, TRUE, 1, FALSE)
         ELSE DeleteOutcome(d, {p}, FALSE, 2, TRUE, 1, FALSE)
    ELSE DeleteOutcome(d, {p}, FALSE, 1, FALSE, 0, FALSE)

\* safe_delete(file_path) on the disk d, where the first os.unlink ends
\* first ("ok", "permission": PermissionError, "other": another exception)
\* and the os.unlink after gc.collect() and time.sleep(1) ends second
safe_delete(p, d, first, second) ==
    IF p \notin d
    THEN DeleteOutcome(d, {}, FALSE, 0, FALSE, 0, FALSE)
    ELSE IF first = "ok"
    THEN DeleteOutcome(d \ {p}, {}, TRUE, 1, FALSE, 0, FALSE)
    ELSE IF first = "permission"
    THEN IF second = "ok"
         THEN DeleteOutcome(d \ {p}, {}, TRUE, 2, TRUE, 1, FALSE)
         ELSE DeleteOutcome(d, {p}, FALSE, 2, TRUE, 1, FALSE)
    ELSE DeleteOutcome(d, {p}, FALSE, 1, FALSE, 0, FALSE)

\* the ways the first and the second os.unlink of a call can end
FirstUnlink == {"ok", "permission", "other"}
SecondUnlink == {"ok", "fail"}

\* a faulty variant: the file is only deleted when the chunk has a text
CleaningOnSuccess ==
    /\ pc = "Cleaning"
    /\ IF i \in exhausted
       THEN UNCHANGED <<disk, warned, delete_called>>
       ELSE \E p \in temp_path, first \in {"ok", "permission", "other"},
               second \in {"ok", "fail"} :
              LET r == safe_delete(p, disk, first, second)
              IN  /\ disk' = r.disk
                  /\ warned' = warned \cup r.warn
                  /\ delete_called' = delete_called \cup {p}
    /\ i' = i + 1
    /\ pc' = "PerChunkLoop"
    /\ UNCHANGED <<load_ok, duration, chunk_minutes, chunks, temp_path,
                   full_transcript, transcript, attempt, sleeps, result, errors,
                   progress_events, calls, created, chunk_text, exhausted,
                   export_failed>>
    /\ UNCHANGED <<call_log, hvars>>

\* safe_delete(temp_path), the last statement of the loop body
Cleaning ==
    /\ pc = "Cleaning"
    /\ \E p \in temp_path, first \in {"ok", "permission", "other"},
          second \in {"ok", "fail"} :
        LET r == safe_delete(p, disk, first, second)
        IN  /\ disk' = r.disk
            /\ warned' = warned \cup r.warn
            /\ delete_called' = delete_called \cup {p}
    /\ i' = i + 1
    /\ pc' = "PerChunkLoop"
    /\ UNCHANGED <<load_ok, duration, chunk_minutes, chunks, temp_path,
                   full_transcript, transcript, attempt, sleeps, result, errors,
                   progress_events, calls, created, chunk_text, exhausted,
                   export_failed>>
    /\ UNCHANGED <<call_log, hvars>>

\* return "\n\n".join(full_transcript)
ReturnTranscript ==
    /\ pc = "PerChunkLoop"
    /\ i = Len(chunks)
    /\ result' = Join(full_transcript)
    /\ pc' = "Done"
    /\ UNCHANGED <<load_ok, duration, chunk_minutes, chunks, i, temp_path, disk,
                   full_transcript, transcript, attempt, sleeps, errors,
                   warned, progress_events, calls, created, delete_called,
                   chunk_text, exhausted,
                   export_failed>>
    /\ UNCHANGED <<call_log, hvars>>

Next ==
    \/ Start
    \/ LoadSource
    \/ ReturnEmpty
    \/ ReportProgress
    \/ CreateTemp
    \/ Export
    \/ TranscribeAttempt
    \/ AppendChunk
    \/ Cleaning
    \/ ReturnTranscript

Spec == Init /\ [][Next]_vars

\* every step of the job is taken in finite time: the code is sequential and
\* every call it makes returns or raises
FairSpec == Spec /\ WF_vars(Next)

----------------------------------------------------------------------------
(* split_audio called on its own, with every chunk_minutes argument *)

SplitInit ==
    /\ pc = "SplitCall"
    /\ load_ok \in BOOLEAN
    /\ duration \in DurationsFor(1..MaxChunkMinutes)
    /\ chunk_minutes \in 1..MaxChunkMinutes
    /\ InitLocals
    /\ retries = DefaultRetries
    /\ sd_log = <<>>
    /\ NoApp

\* chunks = split_audio(file_path, chunk_minutes)
SplitAudioCall ==
    /\ pc = "SplitCall"
    /\ chunks' = split_audio(load_ok, duration, chunk_minutes)
    /\ errors' = errors \cup SplitErrors(load_ok)
    /\ pc' = "SplitReturned"
    /\ UNCHANGED <<load_ok, duration, chunk_minutes, i, temp_path, disk,
                   full_transcript, transcript, attempt, sleeps, result,
                   warned, progress_events, calls, created, delete_called,
                   chunk_text, exhausted,
                   export_failed>>
    /\ UNCHANGED <<call_log, hvars>>

SplitNext == SplitAudioCall

SplitSpec == SplitInit /\ [][SplitNext]_vars

----------------------------------------------------------------------------
(* transcribe_chunk called on its own, with every retry budget *)

\* the chunk file i exists and transcribe_chunk(i, retries) is entered
TranscribeInit ==
    /\ pc = "Transcribing"
    /\ retries \in 0..MaxRetries
    /\ i \in 0..(MaxChunks - 1)
    /\ temp_path = {i}
    /\ disk = {i}
    /\ created = {i}
    /\ load_ok = TRUE
    /\ duration = MaxChunks * ChunkMs(DefaultChunkMinutes)
    /\ chunk_minutes = DefaultChunkMinutes
    /\ chunks = split_audio(load_ok, duration, chunk_minutes)
    /\ full_transcript = <<>>
    /\ transcript = EmptyText
    /\ attempt = 0
    /\ sleeps = <<>>
    /\ result = EmptyText
    /\ errors = {}
    /\ warned = {}
    /\ progress_events = <<>>
    /\ calls = 0
    /\ delete_called = {}
    /\ chunk_text = <<>>
    /\ exhausted = {}
    /\ export_failed = {}
    /\ call_log = <<>>
    /\ sd_log = <<>>
    /\ NoApp

TranscribeNext == TranscribeAttempt

TranscribeSpec == TranscribeInit /\ [][TranscribeNext]_vars

----------------------------------------------------------------------------
(* safe_delete called on its own, on paths that exist and paths that do not *)

DeleteInit ==
    /\ pc = "DeleteCall"
    /\ disk \in SUBSET (0..(MaxChunks - 1))
    /\ created = disk
    /\ load_ok = TRUE
    /\ duration = MaxChunks * ChunkMs(DefaultChunkMinutes)
    /\ chunk_minutes = DefaultChunkMinutes
    /\ chunks = <<>>
    /\ i = 0
    /\ temp_path = {}
    /\ full_transcript = <<>>
    /\ transcript = EmptyText
    /\ attempt = 0
    /\ sleeps = <<>>
    /\ result = EmptyText
    /\ errors = {}
    /\ warned = {}
    /\ progress_events = <<>>
    /\ calls = 0
    /\ delete_called = {}
    /\ chunk_text = <<>>
    /\ exhausted = {}
    /\ export_failed = {}
    /\ call_log = <<>>
    /\ retries = DefaultRetries
    /\ sd_log = <<>>
    /\ NoApp

\* safe_delete(p) is called and returns, or raises
SafeDeleteCall ==
    /\ pc = "DeleteCall"
    /\ \E p \in 0..(MaxChunks - 1), first \in FirstUnlink,
          second \in SecondUnlink :
        LET r == safe_delete(p, disk, first, second)
        IN  /\ disk' = r.disk
            /\ warned' = warned \cup r.warn
            /\ delete_called' = delete_called \cup {p}
            /\ sd_log' = Append(sd_log,
                                [path |-> p, existed |-> p \in disk,
                                 first |-> first, second |-> second,
                                 out |-> r])
            /\ pc' = IF r.raised THEN "DeleteRaised" ELSE "DeleteReturned"
    /\ UNCHANGED <<load_ok, duration, chunk_minutes, chunks, i, temp_path,
                   full_transcript, transcript, attempt, sleeps, result, errors,
                   progress_events, calls, created, chunk_text, exhausted,
                   export_failed, call_log, retries, appvars>>

DeleteNext == SafeDeleteCall

DeleteSpec == DeleteInit /\ [][DeleteNext]_vars

----------------------------------------------------------------------------
(* The two handlers of the page: the audio upload (lines 143-176) and the   *)
(* YouTube transcription (lines 195-246).  st.session_state belongs to one  *)
(* browser session: every session has a processing flag of its own, and     *)
(* the script runs of different sessions run side by side.                  *)

\* a faulty variant: only None is false
TruthyNotNone(r) == r # {}

\* the truth value Python gives a result: None and "" are false
Truthy(r) == r # {} /\ r # {EmptyText}

\* what the page displays for the result r at the end of a run that entered
\* the handler: st.success (lines 165-166, 235-236) and the download button
\* with the text area (lines 168-176, 238-246)
Displayed(r) == IF Truthy(r) THEN {"success", "download"} ELSE {}

\* if audio_file and not st.session_state.processing:
\* if st.button("Transcribe Video") and not st.session_state.processing:
CheckGuard(s) ==
    /\ hpc[s] = "Run"
    /\ IF processing[s]
       THEN /\ hpc' = [hpc EXCEPT ![s] = "Ended"]
            /\ shown' = [shown EXCEPT ![s] = Displayed(h_result[s]) \ {"success"}]
       ELSE /\ hpc' = [hpc EXCEPT ![s] = "Entered"]
            /\ UNCHANGED shown
    /\ UNCHANGED <<processing, entry, h_temp_path, h_result, h_errors,
                   interrupted, src_disk, src_warned, src_written, src_deleted>>
    /\ UNCHANGED <<retries, sd_log, jobvars>>

\* temp_path = None; try: st.session_state.processing = True
SetFlag(s) ==
    /\ hpc[s] = "Entered"
    /\ processing' = [processing EXCEPT ![s] = TRUE]
    /\ hpc' = [hpc EXCEPT ![s] = "Acquiring"]
    /\ UNCHANGED <<entry, h_temp_path, h_result, h_errors, shown, interrupted,
                   src_disk, src_warned, src_written, src_deleted>>
    /\ UNCHANGED <<retries, sd_log, jobvars>>

\* the upload is written to a temp file of its own (lines 150-152); the
\* creation of the file or the write may raise, and temp_path is only bound
\* after the write
AcquireUpload(s) ==
    /\ hpc[s] = "Acquiring"
    /\ entry[s] = "audio"
    /\ \E outcome \in {"ok", "create_fail", "write_fail"} :
        /\ src_disk' = IF outcome = "create_fail" THEN src_disk
                       ELSE src_disk \cup {UploadPath(s)}
        /\ IF outcome = "ok"
           THEN /\ h_temp_path' = [h_temp_path EXCEPT ![s] = {UploadPath(s)}]
                /\ src_written' = src_written \cup {s}
                /\ hpc' = [hpc EXCEPT ![s] = "Acquired"]
                /\ UNCHANGED h_errors
           ELSE \* except Exception as e: st.error("Processing error: ...")
                /\ h_errors' = [h_errors EXCEPT ![s] = @ \cup {"processing"}]
                /\ hpc' = [hpc EXCEPT ![s] = "Finally"]
                /\ UNCHANGED <<h_temp_path, src_written>>
    /\ UNCHANGED <<processing, entry, h_result, shown, interrupted, src_warned,
                   src_deleted>>
    /\ UNCHANGED <<retries, sd_log, jobvars>>

\* the audio of the video is downloaded to yt_audio_<id>.mp3 unless that
\* file exists (lines 213-222); extract_info or download may raise
AcquireVideo(s) ==
    /\ hpc[s] = "Acquiring"
    /\ entry[s] = "youtube"
    /\ \E ok \in BOOLEAN :
        IF ok
        THEN /\ src_disk' = src_disk \cup {YtPath}
             /\ h_temp_path' = [h_temp_path EXCEPT ![s] = {YtPath}]
             /\ hpc' = [hpc EXCEPT ![s] = "Acquired"]
             /\ UNCHANGED h_errors
        ELSE \* except Exception as e: st.error("YouTube processing error: ...")
             /\ h_errors' = [h_errors EXCEPT ![s] = @ \cup {"youtube"}]
             /\ hpc' = [hpc EXCEPT ![s] = "Finally"]
             /\ UNCHANGED <<h_temp_path, src_disk>>
    /\ UNCHANGED <<processing, entry, h_result, shown, interrupted, src_warned,
                   src_written, src_deleted>>
    /\ UNCHANGED <<retries, sd_log, jobvars>>

\* process_long_audio(temp_path) is called (lines 155, 225)
CallJob(s) ==
    /\ hpc[s] = "Acquired"
    /\ pc = "NotCalled"
    /\ pc' = "Idle"
    /\ hpc' = [hpc EXCEPT ![s] = "Processing"]
    /\ UNCHANGED <<load_ok, duration, chunk_minutes, chunks, i, temp_path, disk,
                   full_transcript, transcript, attempt, sleeps, result, errors,
                   warned, progress_events, calls, created, delete_called,
                   chunk_text, exhausted, export_failed, call_log>>
    /\ UNCHANGED <<processing, entry, h_temp_path, h_result, h_errors, shown,
                   interrupted, src_disk, src_warned, src_written, src_deleted>>
    /\ UNCHANGED <<retries, sd_log>>

\* st.session_state.audio_result = process_long_audio(temp_path)
JobReturn(s) ==
    /\ hpc[s] = "Processing"
    /\ pc \in {"Done", "Aborted"}
    /\ h_result' = [h_result EXCEPT ![s] = {result}]
    /\ hpc' = [hpc EXCEPT ![s] = "Finally"]
    /\ UNCHANGED <<processing, entry, h_temp_path, h_errors, shown,
                   interrupted, src_disk, src_warned, src_written, src_deleted>>
    /\ UNCHANGED <<retries, sd_log, jobvars>>

\* an exception that is no Exception (the stop or rerun of the script run,
\* raised by Streamlit inside an st call; KeyboardInterrupt) passes the
\* "except Exception" of lines 122 and 157: only the finally clause runs.
\* The st calls of the job are at the head of the loop body and in the
\* except branch of transcribe_chunk.
Interrupt(s) ==
    /\ hpc[s] = "Processing"
    /\ \/ pc = "PerChunkLoop" /\ i < Len(chunks)
       \/ pc = "Transcribing"
    /\ pc' = "Raised"
    /\ interrupted' = [interrupted EXCEPT ![s] = TRUE]
    /\ hpc' = [hpc EXCEPT ![s] = "Finally"]
    /\ UNCHANGED <<load_ok, duration, chunk_minutes, chunks, i, temp_path, disk,
                   full_transcript, transcript, attempt, sleeps, result, errors,
                   warned, progress_events, calls, created, delete_called,
                   chunk_text, exhausted, export_failed, call_log>>
    /\ UNCHANGED <<processing, entry, h_temp_path, h_result, h_errors, shown,
                   src_disk, src_warned, src_written, src_deleted>>
    /\ UNCHANGED <<retries, sd_log>>

\* the paths the finally clause calls safe_delete on:
\* "if temp_path:" (line 161), "if temp_path and os.path.exists(temp_path):"
\* (line 231)
FinallyTargets(s) ==
    IF entry[s] = "audio" THEN h_temp_path[s] ELSE h_temp_path[s] \cap src_disk

\* a faulty variant: the source file is deleted at the end of the try body,
\* which an exception skips
FinallyDeleteUnlessRaised(s) ==
    /\ hpc[s] = "Finally"
    /\ IF FinallyTargets(s) = {} \/ interrupted[s]
       THEN UNCHANGED <<src_disk, src_warned, src_deleted>>
       ELSE \E p \in FinallyTargets(s), first \in FirstUnlink,
               second \in SecondUnlink :
              LET r == safe_delete(p, src_disk, first, second)
              IN  /\ src_disk' = r.disk
                  /\ src_warned' = src_warned \cup r.warn
                  /\ src_deleted' = src_deleted \cup {s}
    /\ hpc' = [hpc EXCEPT ![s] = "Clearing"]
    /\ UNCHANGED <<processing, entry, h_temp_path, h_result, h_errors, shown,
                   interrupted, src_written>>
    /\ UNCHANGED <<retries, sd_log, jobvars>>

\* finally: safe_delete(temp_path) (lines 159-162, 229-232)
FinallyDelete(s) ==
    /\ hpc[s] = "Finally"
    /\ IF FinallyTargets(s) = {}
       THEN UNCHANGED <<src_disk, src_warned, src_deleted>>
       ELSE \E p \in FinallyTargets(s), first \in FirstUnlink,
               second \in SecondUnlink :
              LET r == safe_delete(p, src_disk, first, second)
              IN  /\ src_disk' = r.disk
                  /\ src_warned' = src_warned \cup r.warn
                  /\ src_deleted' = src_deleted \cup {s}
    /\ hpc' = [hpc EXCEPT ![s] = "Clearing"]
    /\ UNCHANGED <<processing, entry, h_temp_path, h_result, h_errors, shown,
                   interrupted, src_written>>
    /\ UNCHANGED <<retries, sd_log, jobvars>>

\* a faulty variant: the flag is cleared at the end of the try body, which
\* an exception skips
ClearFlagUnlessRaised(s) ==
    /\ hpc[s] = "Clearing"
    /\ processing' = [processing EXCEPT ![s] =
                         interrupted[s] \/ h_errors[s] # {}]
    /\ hpc' = [hpc EXCEPT ![s] = IF interrupted[s] THEN "Ended" ELSE "Success"]
    /\ UNCHANGED <<entry, h_temp_path, h_result, h_errors, shown, interrupted,
                   src_disk, src_warned, src_written, src_deleted>>
    /\ UNCHANGED <<retries, sd_log, jobvars>>

\* finally: st.session_state.processing = False (lines 163, 233); an
\* exception that passed the except clause then ends the script run
ClearFlag(s) ==
    /\ hpc[s] = "Clearing"
    /\ processing' = [processing EXCEPT ![s] = FALSE]
    /\ hpc' = [hpc EXCEPT ![s] = IF interrupted[s] THEN "Ended" ELSE "Success"]
    /\ UNCHANGED <<entry, h_temp_path, h_result, h_errors, shown, interrupted,
                   src_disk, src_warned, src_written, src_deleted>>
    /\ UNCHANGED <<retries, sd_log, jobvars>>

\* if st.session_state.audio_result: st.success(...), and the download
\* button with the text area (lines 165-176, 235-246)
Display(s) ==
    /\ hpc[s] = "Success"
    /\ shown' = [shown EXCEPT ![s] = Displayed(h_result[s])]
    /\ hpc' = [hpc EXCEPT ![s] = "Ended"]
    /\ UNCHANGED <<processing, entry, h_temp_path, h_result, h_errors,
                   interrupted, src_disk, src_warned, src_written, src_deleted>>
    /\ UNCHANGED <<retries, sd_log, jobvars>>

\* one session runs a handler, on a source of a whole number of chunks
HandlerInit ==
    /\ pc = "NotCalled"
    /\ load_ok \in BOOLEAN
    /\ duration \in {k * ChunkMs(DefaultChunkMinutes) : k \in 0..MaxChunks}
    /\ chunk_minutes = DefaultChunkMinutes
    /\ InitLocals
    /\ retries = DefaultRetries
    /\ sd_log = <<>>
    /\ hpc = [s \in Sessions |-> IF s = 1 THEN "Run" ELSE "Off"]
    /\ \E e \in {"audio", "youtube"} :
          entry = [s \in Sessions |-> IF s = 1 THEN e ELSE "audio"]
    /\ src_disk \in {{}, {YtPath}}
    /\ InitSessions

HandlerNext ==
    \/ \E s \in Sessions : CheckGuard(s)
    \/ \E s \in Sessions : SetFlag(s)
    \/ \E s \in Sessions : AcquireUpload(s)
    \/ \E s \in Sessions : AcquireVideo(s)
    \/ \E s \in Sessions : CallJob(s)
    \/ Start
    \/ LoadSource
    \/ ReturnEmpty
    \/ ReportProgress
    \/ CreateTemp
    \/ Export
    \/ TranscribeAttempt
    \/ AppendChunk
    \/ Cleaning
    \/ ReturnTranscript
    \/ \E s \in Sessions : Interrupt(s)
    \/ \E s \in Sessions : JobReturn(s)
    \/ \E s \in Sessions : FinallyDelete(s)
    \/ \E s \in Sessions : ClearFlag(s)
    \/ \E s \in Sessions : Display(s)

HandlerSpec == HandlerInit /\ [][HandlerNext]_vars

----------------------------------------------------------------------------
(* Several browser sessions at once.  Each session's script run is a thread *)
(* of the one server process, and the job of a session is followed only     *)
(* from its call to its return: what it returns is a text or "".            *)

\* process_long_audio(temp_path) is entered by the run of session s
EnterJob(s) ==
    /\ hpc[s] = "Acquired"
    /\ hpc' = [hpc EXCEPT ![s] = "Processing"]
    /\ UNCHANGED <<processing, entry, h_temp_path, h_result, h_errors, shown,
                   interrupted, src_disk, src_warned, src_written, src_deleted>>
    /\ UNCHANGED <<retries, sd_log, jobvars>>

\* process_long_audio returns to the run of session s
LeaveJob(s) ==
    /\ hpc[s] = "Processing"
    /\ \E t \in Texts : h_result' = [h_result EXCEPT ![s] = {t}]
    /\ hpc' = [hpc EXCEPT ![s] = "Finally"]
    /\ UNCHANGED <<processing, entry, h_temp_path, h_errors, shown,
                   interrupted, src_disk, src_warned, src_written, src_deleted>>
    /\ UNCHANGED <<retries, sd_log, jobvars>>

SessionsInit ==
    /\ pc = "NotCalled"
    /\ load_ok = TRUE
    /\ duration = 0
    /\ chunk_minutes = DefaultChunkMinutes
    /\ InitLocals
    /\ retries = DefaultRetries
    /\ sd_log = <<>>
    /\ hpc = [s \in Sessions |-> "Run"]
    /\ entry \in [Sessions -> {"audio", "youtube"}]
    /\ src_disk \in {{}, {YtPath}}
    /\ InitSessions

SessionsNext ==
    \E s \in Sessions :
        \/ CheckGuard(s)
        \/ SetFlag(s)
        \/ AcquireUpload(s)
        \/ AcquireVideo(s)
        \/ EnterJob(s)
        \/ LeaveJob(s)
        \/ FinallyDelete(s)
        \/ ClearFlag(s)
        \/ Display(s)

SessionsSpec == SessionsInit /\ [][SessionsNext]_vars

----------------------------------------------------------------------------
(* Properties *)

\* the paragraphs of a text: its pieces between the separators
RECURSIVE ParagraphsFrom(_, _)
ParagraphsFrom(text, cur) ==
    IF text = <<>> THEN <<cur>>
    ELSE IF Len(text) >= 2 /\ SubSeq(text, 1, 2) = Separator
    THEN <<cur>> \o ParagraphsFrom(SubSeq(text, 3, Len(text)), <<>>)
    ELSE ParagraphsFrom(Tail(text), Append(cur, Head(text)))

Paragraphs(text) == ParagraphsFrom(text, <<>>)

\* the job returned from the loop, with N >= 1 chunks
DoneWithChunks == pc = "Done" /\ chunks # <<>>

\* the positions of the loop body before and after the append of chunk i
BeforeAppend == {"PerChunkLoop", "CreateTemp", "Exporting", "Transcribing", "Append"}

\* C1: a job that ends in Done with N chunks returns the join of exactly N
\* entries with the paragraph separator, entry k being the text
\* transcribe_chunk returned for chunk k; and at every point of the loop
\* full_transcript[k] is the result of chunk k for every processed k.
C1_OrderedTranscript ==
    /\ \A k \in 1..Len(full_transcript) :
          k <= Len(chunk_text) /\ full_transcript[k] = chunk_text[k]
    /\ pc \in BeforeAppend => Len(full_transcript) = i
    /\ pc = "Cleaning" => Len(full_transcript) = i + 1
    /\ DoneWithChunks =>
          /\ Len(chunk_text) = Len(chunks)
          /\ Paragraphs(result) = chunk_text

\* C1 witness: three chunks with three different results, joined in order
C1_Witness ==
    /\ DoneWithChunks
    /\ chunk_text = << <<"b">>, <<>>, <<"a">> >>
    /\ result = <<"b", "\n", "\n", "\n", "\n", "a">>

Terminal == pc \in {"Done", "Aborted"}

\* C3 (as claimed): a failure while exporting chunk i is not fatal: the job
\* does not end in Aborted because of it, and goes on to end in Done with an
\* empty entry at index i.
C3_ExportFailureNotFatal ==
    \A k \in export_failed :
        /\ pc # "Aborted"
        /\ pc = "Done" => Paragraphs(result)[k + 1] = EmptyText

\* C3 (amended): a failure while exporting chunk i is caught by the handler
\* of process_long_audio: the job ends in Aborted at chunk i, the error is
\* reported, the empty string is returned, chunk i gets no entry and no
\* remote call, and safe_delete is not invoked on its temp file.
C3_ExportFailureAborts ==
    \A k \in export_failed :
        /\ pc = "Aborted" /\ i = k
        /\ result = EmptyText
        /\ "processing" \in errors
        /\ Len(full_transcript) = k /\ Len(chunk_text) = k
        /\ k \notin delete_called /\ k \in disk

\* C3 witness: the export of the second chunk failed after a first chunk
\* was transcribed
C3_Witness ==
    /\ export_failed = {1}
    /\ pc = "Aborted"
    /\ full_transcript = << <<"a">> >>

\* C4: every chunk temp file that was created is, once the job is Done or
\* Aborted, deleted or reported as leaked by a warning.
C4_NoSilentLeak ==
    Terminal => \A f \in created : f \notin disk \/ f \in warned

\* C5 (as claimed): at most one chunk temp file exists on disk in every
\* state.
C5_AtMostOneTempFile == Cardinality(disk) <= 1

\* C5 (amended): the chunk temp files on disk are the file of the chunk in
\* hand and the files an earlier safe_delete failed to remove, each of them
\* reported by a warning: at most 1 plus the number of warned leaks.
C5_OneTempFilePlusLeaks ==
    /\ disk \ temp_path \subseteq warned
    /\ Cardinality(disk) <= 1 + Cardinality(warned)
    /\ Cardinality(disk \ warned) <= 1

\* C5 witness: two files on disk, the first one leaked by a failed safe_delete
C5_Witness ==
    /\ disk = {0, 1}
    /\ warned = {0}
    /\ pc = "Transcribing"

\* C6: safe_delete is invoked on the temp file of chunk k after
\* transcribe_chunk returned for chunk k and before the temp file of chunk
\* k + 1 is created, whatever the transcription's outcome; it is never
\* deferred to the end of the job.
C6_DeleteBeforeNextChunk ==
    /\ \A k \in created : \A j \in 0..(k - 1) : j \in delete_called
    /\ \A k \in delete_called : k \in created /\ k + 1 <= Len(chunk_text)
    /\ pc \in {"PerChunkLoop", "CreateTemp"} => delete_called = 0..(i - 1)
    /\ pc \in {"Exporting", "Transcribing", "Append", "Cleaning"} =>
          delete_called = 0..(i - 1) /\ i \in created

\* C6 witness: the temp file of the second chunk exists, the first chunk
\* exhausted its retries and safe_delete was invoked on its file
C6_Witness ==
    /\ 1 \in created
    /\ 0 \in exhausted
    /\ 0 \in delete_called
    /\ pc = "Exporting"

\* a call of transcribe_chunk has just returned after failing every attempt
ExhaustedReturn == pc = "Append" /\ i \in exhausted

\* C7 (as claimed): a call of transcribe_chunk with the default budget of 3
\* whose every attempt fails sleeps 5s, 10s, 20s before it returns "".
C7_BackoffThreeSleeps ==
    ExhaustedReturn => sleeps = <<5, 10, 20>>

\* C7 (amended): a call of transcribe_chunk with the default budget of 3
\* whose every attempt fails makes 3 attempts, sleeps 5s after the first and
\* 10s after the second, and returns "" after the third without sleeping;
\* before attempt a of a call the sleeps were 5 * 2^k for k < a.
C7_BackoffTwoSleeps ==
    /\ ExhaustedReturn =>
          /\ sleeps = <<5, 10>>
          /\ attempt = DefaultRetries - 1
          /\ transcript = EmptyText
    /\ pc = "Transcribing" =>
          /\ Len(sleeps) = attempt
          /\ \A k \in 1..Len(sleeps) : sleeps[k] = 5 * (2 ^ (k - 1))

\* C7 witness: the call for the second chunk returned after three failures
C7_Witness ==
    /\ ExhaustedReturn
    /\ i = 1
    /\ calls >= DefaultRetries + 1
    /\ Len(sleeps) = 2

\* the least n with n * c >= d
CeilDiv(d, c) == (d + c - 1) \div c

\* C8: for a source of duration D >= 0 and a chunk size C > 0, split_audio
\* returns ceil(D / C) chunks, chunk k covering [k * C, min((k + 1) * C, D));
\* the chunks are consecutive, not empty, cover [0, D), the last one lasts
\* D mod C (C when D mod C = 0), and D = 0 gives no chunk.
C8_SplitPartition ==
    (pc = "SplitReturned" /\ load_ok) =>
        LET D == duration
            C == chunk_minutes * 60000
            N == Len(chunks)
        IN  /\ N = CeilDiv(D, C)
            /\ N * C >= D /\ (N > 0 => (N - 1) * C < D)
            /\ D = 0 => N = 0
            /\ \A k \in 1..N :
                  /\ chunks[k].start = (k - 1) * C
                  /\ chunks[k].end = Min(k * C, D)
                  /\ chunks[k].start < chunks[k].end
                  /\ chunks[k].end - chunks[k].start <= C
                  /\ k < N => chunks[k + 1].start = chunks[k].end
            /\ N > 0 =>
                  /\ chunks[1].start = 0
                  /\ chunks[N].end = D
                  /\ chunks[N].end - chunks[N].start =
                        IF D % C = 0 THEN C ELSE D % C

\* C8 witness: D = 150000, C = 120000 gives [0, 120000) and [120000, 150000)
C8_Witness ==
    /\ pc = "SplitReturned"
    /\ duration = 150000
    /\ chunk_minutes = 2
    /\ chunks = << [start |-> 0, end |-> 120000],
                   [start |-> 120000, end |-> 150000] >>

\* C9: an exception raised in the loop, also after chunks were transcribed,
\* ends the job in Aborted: it is reported, not propagated, and the empty
\* string is returned, never the partial transcript.
C9_AbortReturnsEmpty ==
    /\ pc = "Aborted" =>
          /\ result = EmptyText
          /\ "processing" \in errors
          /\ i < Len(chunks)
    /\ "processing" \in errors => pc = "Aborted"

\* C9 witness: the job aborted after two chunks were transcribed with a text
C9_Witness ==
    /\ pc = "Aborted"
    /\ Len(full_transcript) = 2
    /\ full_transcript[1] # EmptyText
    /\ full_transcript[2] # EmptyText

\* the source is empty or cannot be loaded
NothingToTranscribe == duration = 0 \/ ~load_ok

\* C10: for a source of duration 0 or one that fails to load,
\* process_long_audio returns the empty transcript at once: no chunk, no
\* temp file, no remote call and no progress event.
C10_EmptySourceReturnsAtOnce ==
    NothingToTranscribe =>
        /\ pc \in {"Idle", "Loading", "Empty", "Done"}
        /\ chunks = <<>>
        /\ result = EmptyText
        /\ created = {} /\ disk = {}
        /\ calls = 0
        /\ progress_events = <<>>

\* C10 witness: the job of a loadable source of duration 0 is Done
C10_Witness ==
    /\ pc = "Done"
    /\ duration = 0
    /\ load_ok

\* the fraction a / b is smaller than the fraction c / d (b, d > 0)
FracLess(x, y) == x[1] * y[2] < y[1] * x[2]

JobSteps ==
    { <<"Idle", "Loading">>, <<"Loading", "Empty">>,
      <<"Loading", "PerChunkLoop">>, <<"Empty", "Done">>,
      <<"PerChunkLoop", "CreateTemp">>, <<"PerChunkLoop", "Done">>,
      <<"CreateTemp", "Exporting">>, <<"CreateTemp", "Aborted">>,
      <<"Exporting", "Transcribing">>, <<"Exporting", "Aborted">>,
      <<"Transcribing", "Transcribing">>, <<"Transcribing", "Append">>,
      <<"Append", "Cleaning">>, <<"Cleaning", "PerChunkLoop">> }

\* the step taken is one of the state machine
IsJobStep == <<pc, pc'>> \in JobSteps

\* C17: a job goes Idle, Loading, then Empty or the per-chunk loop, each
\* chunk passing through export, transcription and cleaning in that order;
\* it makes at most N * retries remote calls, every state but Done and
\* Aborted has a next step, and the job reaches Done or Aborted.
C17_JobTerminates ==
    /\ [][IsJobStep]_vars
    /\ [](calls <= Len(chunks) * DefaultRetries)
    /\ [](~Terminal => ENABLED Next)
    /\ [](Terminal => ~ENABLED Next)
    /\ <>Terminal

\* C17 witness: a job of three chunks is Done after the full budget of
\* remote calls
C17_Witness ==
    /\ pc = "Done"
    /\ Len(chunks) = 3
    /\ calls = 3 * DefaultRetries

\* transcribe_chunk has returned
Returned == pc = "Append"

\* every attempt of the call failed (also when there was none)
AllFailed == \A k \in 1..Len(call_log) : ~call_log[k].ok

\* C15 (as claimed): transcribe_chunk returns the empty string exactly when
\* all its calls failed (or the budget is 0).
C15_EmptyIffAllFailed ==
    Returned => (transcript = EmptyText <=> AllFailed)

\* C15 (amended): for every budget R >= 0 transcribe_chunk makes at most R
\* remote calls; it returns the response of the first successful call, which
\* may itself be empty, and calls no more after it; it returns the empty
\* string when all R calls failed (or R = 0); it sleeps after a failed
\* attempt only when another attempt follows, and never raises.
C15_RetryBudget ==
    /\ pc \in {"Transcribing", "Append"}
    /\ errors \subseteq {"chunk"}
    /\ calls = Len(call_log) /\ calls <= retries
    /\ \A k \in 1..Len(call_log) : call_log[k].ok => k = Len(call_log)
    /\ \A k \in 1..Len(sleeps) : sleeps[k] = 5 * (2 ^ (k - 1))
    /\ pc = "Transcribing" =>
          AllFailed /\ Len(sleeps) = Len(call_log) /\ attempt = Len(call_log)
    /\ Returned =>
          IF AllFailed
          THEN /\ Len(call_log) = retries
               /\ transcript = EmptyText
               /\ Len(sleeps) = (IF retries = 0 THEN 0 ELSE retries - 1)
               /\ ("chunk" \in errors <=> retries > 0)
          ELSE /\ transcript = call_log[Len(call_log)].text
               /\ Len(sleeps) = Len(call_log) - 1
               /\ errors = {}

\* C15 witness: with a budget of 4 the third call succeeded after two failures
C15_Witness ==
    /\ Returned
    /\ retries = 4
    /\ call_log = <<Failed, Failed, Succeeded(<<"a">>)>>
    /\ sleeps = <<5, 10>>
    /\ transcript = <<"a">>

\* C13: safe_delete never lets an exception out: every failure becomes a
\* False return with a warning.  After a PermissionError of the first
\* removal it runs the collector, waits 1s and retries once, warning and
\* returning False when the retry fails too; after another failure it warns
\* and returns False without a retry.  A call removes at most twice.
C13_DeleteSwallowsFailures ==
    /\ pc # "DeleteRaised"
    /\ \A k \in 1..Len(sd_log) :
        LET c == sd_log[k]
            failed == c.existed /\ c.path \in c.out.disk
        IN  /\ ~c.out.raised
            /\ c.out.unlinks <= 2
            /\ failed => ~c.out.ret /\ c.out.warn = {c.path}
            /\ (c.existed /\ c.first = "permission") =>
                  /\ c.out.gc /\ c.out.slept = 1 /\ c.out.unlinks = 2
                  /\ c.out.ret <=> c.second = "ok"
            /\ (c.existed /\ c.first = "other") =>
                  /\ c.out.unlinks = 1 /\ ~c.out.gc /\ c.out.slept = 0
                  /\ ~c.out.ret /\ c.out.warn = {c.path}
            /\ (c.existed /\ c.first = "ok") =>
                  c.out.unlinks = 1 /\ ~c.out.gc /\ c.out.slept = 0

\* C13 witness: the first removal hit a PermissionError and the retry failed
C13_Witness ==
    /\ pc = "DeleteReturned"
    /\ Len(sd_log) = 1
    /\ sd_log[1].existed
    /\ sd_log[1].first = "permission" /\ sd_log[1].second = "fail"
    /\ ~sd_log[1].out.ret
    /\ sd_log[1].path \in warned /\ sd_log[1].path \in disk

\* C19: safe_delete returns True only if the file is gone when it returns;
\* when it returns False for a path that existed at the call it has warned;
\* for a path that did not exist it returns False without a removal attempt
\* and without a warning.
C19_DeleteReturnValue ==
    \A k \in 1..Len(sd_log) :
        LET c == sd_log[k]
        IN  /\ c.out.ret => c.path \notin c.out.disk
            /\ (~c.out.ret /\ c.existed) => c.path \in c.out.warn
            /\ ~c.existed =>
                  /\ ~c.out.ret
                  /\ c.out.unlinks = 0
                  /\ c.out.warn = {}
                  /\ c.path \notin c.out.disk

\* C19 witness: safe_delete returned False for a path that did not exist
\* while another file was on disk
C19_Witness ==
    /\ pc = "DeleteReturned"
    /\ Len(sd_log) = 1
    /\ ~sd_log[1].existed
    /\ ~sd_log[1].out.ret
    /\ disk # {}
    /\ warned = {}


\* C11: at most one process_long_audio job is between its start and its
\* terminal state, whatever the interleaving of the two entry points and of
\* the script runs.
JobsInFlight == {s \in Sessions : hpc[s] = "Processing"}

C11_SingleFlight == Cardinality(JobsInFlight) <= 1

\* C12: the processing flag is true before the source file is written or
\* downloaded, stays true while the job runs, and is false again once the
\* handler is left, on every exit path: no session keeps a true flag with
\* no job running.
FlagHeld == {"Acquiring", "Acquired", "Processing", "Finally", "Clearing"}

C12_FlagBrackets ==
    \A s \in Sessions :
        /\ processing[s] <=> hpc[s] \in FlagHeld
        /\ h_temp_path[s] # {} => hpc[s] \notin {"Off", "Run", "Entered"}
        /\ s \in src_written => hpc[s] \notin {"Off", "Run", "Entered"}
        /\ (s = 1 /\ pc \notin {"NotCalled", "Done", "Aborted", "Raised"})
              => processing[s]

\* an exit path with an exception in the acquisition, after which the flag
\* is false again
C12_Witness ==
    /\ hpc[1] = "Ended"
    /\ ~processing[1]
    /\ h_errors[1] # {}

\* C14 as stated: a job that ends in Done over N >= 1 chunks gets the
\* success confirmation and the download, whatever the texts of the chunks.
HandlerLeft(s) == hpc[s] = "Ended" /\ ~interrupted[s]

C14_DoneIsShown ==
    (HandlerLeft(1) /\ pc = "Done" /\ Len(chunks) >= 1)
        => shown[1] = {"success", "download"}

\* C14: a job that ends in Done over N >= 1 chunks gets the success
\* confirmation and the download exactly when the joined transcript is not
\* the empty string; chunks with an empty text beside a chunk with a text do
\* not prevent it.
C14_ShownIffNonEmpty ==
    (HandlerLeft(1) /\ pc = "Done" /\ Len(chunks) >= 1)
        => /\ h_result[1] = {Join(full_transcript)}
           /\ shown[1] = IF Join(full_transcript) # EmptyText
                         THEN {"success", "download"}
                         ELSE {}

\* a job in Done with an empty chunk beside a non-empty one, shown
C14_Witness ==
    /\ HandlerLeft(1)
    /\ pc = "Done"
    /\ \E j, k \in 1..Len(full_transcript) :
          full_transcript[j] = EmptyText /\ full_transcript[k] # EmptyText
    /\ shown[1] = {"success", "download"}

\* C18: in the audio path, once the upload is written to the source file,
\* safe_delete has been called on it when the flag is about to be cleared
\* and ever after, on every exit path; it is called with the flag still
\* true, and never while the job is between its call and its return.
JobRunning == pc \in {"Idle", "Loading", "PerChunkLoop", "CreateTemp",
                      "Exporting", "Transcribing", "Append", "Cleaning"}

C18_SourceDeletedAtExit ==
    \A s \in Sessions :
        entry[s] = "audio" =>
            /\ (s \in src_written /\ hpc[s] \in {"Clearing", "Success", "Ended"})
                  => s \in src_deleted
            /\ (s \in src_deleted /\ hpc[s] = "Clearing") => processing[s]
            /\ s \in src_deleted => ~JobRunning
            /\ (JobRunning /\ hpc[s] = "Processing")
                  => UploadPath(s) \in src_disk

\* the handler is left by an exception that is no Exception, and the source
\* file has been handed to safe_delete
C18_Witness ==
    /\ entry[1] = "audio"
    /\ hpc[1] = "Ended"
    /\ interrupted[1]
    /\ 1 \in src_written
    /\ 1 \in src_deleted
====
